---- MODULE Spec2Model ----
(***************************************************************************)
(* Model of limitless-mcp-server (src/src/index.ts): one program that,     *)
(* depending on argv[2], runs an MCP server exposing the getLifelogs tool, *)
(* a one-shot client, or an interactive client; the clients spawn the      *)
(* same program in server mode as a subprocess.                            *)
(*                                                                         *)
(* JavaScript values are records tagged by "type".  Texts that the code    *)
(* only concatenates are strings; texts the code inspects character by     *)
(* character (the tool name passed through toLowerCase) are sequences of   *)
(* one-character strings.                                                  *)
(***************************************************************************)
EXTENDS Integers, Sequences, FiniteSets, TLC

(* ------------------------------------------------------------------ *)
(* Bounds of the model                                                 *)
(* ------------------------------------------------------------------ *)

\* Tool calls a client (interactive or external) issues in one run.
MaxCalls == 2

\* Largest page-size number an argument object carries.
MaxLimit == 3

(* ------------------------------------------------------------------ *)
(* JavaScript values                                                   *)
(* ------------------------------------------------------------------ *)

Undefined == [type |-> "undefined"]

Null == [type |-> "null"]

Str(s) == [type |-> "string", s |-> s]

Bool(b) == [type |-> "boolean", b |-> b]

Num(n) == [type |-> "number", n |-> n]

\* An object is its own-property list in insertion order (Object.entries).
Obj(entries) == [type |-> "object", entries |-> entries]

Arr(items) == [type |-> "array", items |-> items]

Prop(k, v) == [k |-> k, v |-> v]

\* JavaScript truthiness, as used by `!LIMITLESS_API_KEY` and `if (params)`.
Truthy(v) ==
    CASE v.type = "undefined" -> FALSE
      [] v.type = "null" -> FALSE
      [] v.type = "string" -> v.s # ""
      [] v.type = "boolean" -> v.b
      [] v.type = "number" -> v.n # 0
      [] OTHER -> TRUE

DigitChar == <<"0", "1", "2", "3", "4", "5", "6", "7", "8", "9">>

RECURSIVE NatToString(_)
NatToString(n) ==
    IF n < 10 THEN DigitChar[n + 1]
    ELSE NatToString(n \div 10) \o DigitChar[(n % 10) + 1]

\* Number.prototype.toString for the integers of the model.
NumberToString(n) == IF n < 0 THEN "-" \o NatToString(0 - n) ELSE NatToString(n)

\* String(value), and the conversion a template literal `${value}` applies.
String(v) ==
    CASE v.type = "undefined" -> "undefined"
      [] v.type = "null" -> "null"
      [] v.type = "string" -> v.s
      [] v.type = "boolean" -> (IF v.b THEN "true" ELSE "false")
      [] v.type = "number" -> NumberToString(v.n)
      [] v.type = "array" -> ""
      [] OTHER -> "[object Object]"

\* The value of own property k of object o, undefined when o has none.
RECURSIVE LookupEntries(_, _)
LookupEntries(entries, k) ==
    IF entries = <<>> THEN Undefined
    ELSE IF Head(entries).k = k THEN Head(entries).v
    ELSE LookupEntries(Tail(entries), k)

GetProp(o, k) == IF o.type = "object" THEN LookupEntries(o.entries, k) ELSE Undefined

(* ------------------------------------------------------------------ *)
(* JSON.stringify and JSON.parse                                       *)
(* ------------------------------------------------------------------ *)

RECURSIVE Indent(_)
Indent(level) == IF level = 0 THEN "" ELSE "  " \o Indent(level - 1)

\* A JSON string literal; the strings of the model need no escapes.
Quote(s) == "\"" \o s \o "\""

\* JSON.stringify(v, null, pretty ? 2 : undefined) at nesting depth `level`.
RECURSIVE JSONstringifyAt(_, _, _)
RECURSIVE StringifyItems(_, _, _)
RECURSIVE StringifyProps(_, _, _)
StringifyItems(items, pretty, level) ==
    IF items = <<>> THEN ""
    ELSE (IF pretty THEN Indent(level) ELSE "")
         \o JSONstringifyAt(Head(items), pretty, level)
         \o (IF Tail(items) = <<>> THEN "" ELSE IF pretty THEN ",\n" ELSE ",")
         \o StringifyItems(Tail(items), pretty, level)

StringifyProps(entries, pretty, level) ==
    IF entries = <<>> THEN ""
    ELSE (IF pretty THEN Indent(level) ELSE "")
         \o Quote(Head(entries).k) \o (IF pretty THEN ": " ELSE ":")
         \o JSONstringifyAt(Head(entries).v, pretty, level)
         \o (IF Tail(entries) = <<>> THEN "" ELSE IF pretty THEN ",\n" ELSE ",")
         \o StringifyProps(Tail(entries), pretty, level)

JSONstringifyAt(v, pretty, level) ==
    CASE v.type = "null" -> "null"
      [] v.type = "boolean" -> (IF v.b THEN "true" ELSE "false")
      [] v.type = "number" -> NumberToString(v.n)
      [] v.type = "string" -> Quote(v.s)
      [] v.type = "array" ->
           IF v.items = <<>> THEN "[]"
           ELSE IF pretty
                THEN "[\n" \o StringifyItems(v.items, TRUE, level + 1)
                     \o "\n" \o Indent(level) \o "]"
                ELSE "[" \o StringifyItems(v.items, FALSE, level) \o "]"
      [] OTHER ->
           IF v.entries = <<>> THEN "{}"
           ELSE IF pretty
                THEN "{\n" \o StringifyProps(v.entries, TRUE, level + 1)
                     \o "\n" \o Indent(level) \o "}"
                ELSE "{" \o StringifyProps(v.entries, FALSE, level) \o "}"

\* JSON.stringify(v)
JSONstringify(v) == JSONstringifyAt(v, FALSE, 0)

\* JSON.stringify(v, null, 2)
JSONstringifyPretty(v) == JSONstringifyAt(v, TRUE, 0)

\* Documents the remote API answers with.
Documents ==
    { Obj(<<>>),
      Obj(<<Prop("lifelogs", Arr(<<Str("walk")>>)), Prop("count", Num(1))>>),
      Str("Error fetching lifelogs: fetch failed") }

\* Argument values a caller sends with a tool call.
ArgumentValues ==
    { Obj(<<>>),
      Obj(<<Prop("direction", Str("asc"))>>),
      Obj(<<Prop("direction", Str("up"))>>),
      Obj(<<Prop("limit", Num(MaxLimit)), Prop("cursor", Str("a b")),
            Prop("includeHeadings", Bool(FALSE)), Prop("page", Num(1))>>),
      Obj(<<Prop("date", Null)>>),
      Num(MaxLimit) }

\* The JSON values of the model: JSON.parse is decided over these.
JsonUniverse == Documents \cup ArgumentValues

SyntaxErrorMessage == "Unexpected token in JSON"

\* JSON.parse(text): the value whose serialization (compact or indented)
\* the text is, a SyntaxError when it is the serialization of none.
JSONparse(text) ==
    LET hits == { v \in JsonUniverse :
                    text \in {JSONstringify(v), JSONstringifyPretty(v)} }
    IN  IF hits = {} THEN [ok |-> FALSE, message |-> SyntaxErrorMessage]
        ELSE [ok |-> TRUE, value |-> CHOOSE v \in hits : TRUE]

(* ------------------------------------------------------------------ *)
(* makeLimitlessRequest: the query string                              *)
(* ------------------------------------------------------------------ *)

LIMITLESS_API_BASE == "https://api.limitless.ai"

LifelogsUrl == LIMITLESS_API_BASE \o "/v1/lifelogs"

\* The loop with `if (value)` for its test: falsy values are dropped too.
RECURSIVE AppendTruthy(_)
AppendTruthy(entries) ==
    IF entries = <<>> THEN <<>>
    ELSE LET e == Head(entries)
         IN  (IF Truthy(e.v)
              THEN <<[name |-> e.k, value |-> String(e.v)]>>
              ELSE <<>>)
             \o AppendTruthy(Tail(entries))

\* The loop over Object.entries(params): qs.append(key, String(value)) for
\* every value that is neither undefined nor null.
RECURSIVE AppendPresent(_)
AppendPresent(entries) ==
    IF entries = <<>> THEN <<>>
    ELSE LET e == Head(entries)
         IN  (IF e.v # Undefined /\ e.v # Null
              THEN <<[name |-> e.k, value |-> String(e.v)]>>
              ELSE <<>>)
             \o AppendPresent(Tail(entries))

\* application/x-www-form-urlencoded byte serialization of the strings of
\* the model: a space becomes "+", ":" is percent-encoded, the rest of
\* their characters are left as they are.
FormUrlEncode(s) ==
    CASE s = "a b" -> "a+b"
      [] s = "10:30" -> "10%3A30"
      [] OTHER -> s

\* URLSearchParams.prototype.toString
RECURSIVE QsToString(_)
QsToString(qs) ==
    IF qs = <<>> THEN ""
    ELSE FormUrlEncode(Head(qs).name) \o "=" \o FormUrlEncode(Head(qs).value)
         \o (IF Tail(qs) = <<>> THEN "" ELSE "&")
         \o QsToString(Tail(qs))

\* The URLSearchParams list makeLimitlessRequest builds (empty without params).
RequestQuery(params) ==
    IF Truthy(params) THEN AppendPresent(params.entries) ELSE <<>>

\* The URL makeLimitlessRequest fetches.
RequestUrl(url, params) ==
    IF Truthy(params) THEN url \o "?" \o QsToString(RequestQuery(params)) ELSE url

(* ------------------------------------------------------------------ *)
(* makeLimitlessRequest: the response                                  *)
(* ------------------------------------------------------------------ *)

\* What `await fetch(url, ...)` settles with: a rejection (network failure)
\* or a response with a status and a body text.
FetchRejected(message) == [kind |-> "reject", message |-> message]

FetchResponse(status, body) == [kind |-> "response", status |-> status, body |-> body]

ResponseBodies ==
    { JSONstringify(d) : d \in Documents } \cup {"unauthorized", ""}

ResponseStatuses == {200, 204, 401}

FetchOutcomes ==
    { FetchRejected("fetch failed") }
    \cup { FetchResponse(st, b) : st \in ResponseStatuses, b \in ResponseBodies }

\* Response.ok
ResponseOk(status) == status >= 200 /\ status <= 299

Returned(value) == [ok |-> TRUE, value |-> value]

\* A thrown Error, by its message.
Thrown(message) == [ok |-> FALSE, message |-> message]

\* The call without the `!response.ok` test: every body is parsed.
GatewayResultIgnoringStatus(outcome) ==
    IF outcome.kind = "reject" THEN Thrown(outcome.message)
    ELSE LET parsed == JSONparse(outcome.body)
         IN  IF parsed.ok THEN Returned(parsed.value)
             ELSE Thrown(parsed.message)

\* Lines 34-39: what the call settles with once fetch has settled.
GatewayResult(outcome) ==
    IF outcome.kind = "reject" THEN Thrown(outcome.message)
    ELSE IF ~ResponseOk(outcome.status)
         THEN Thrown("Request failed: " \o NumberToString(outcome.status)
                     \o " " \o outcome.body)
         ELSE LET parsed == JSONparse(outcome.body)
              IN  IF parsed.ok THEN Returned(parsed.value)
                  ELSE Thrown(parsed.message)

NoOutcome == [kind |-> "none"]

NoResult == [ok |-> FALSE, message |-> "(pending)"]

\* A makeLimitlessRequest call: its arguments, the request it built, the
\* number of fetches it has issued, what fetch settled with and its result.
IdleGateway ==
    [phase |-> "idle", params |-> Undefined, url |-> "", qs |-> <<>>,
     attempts |-> 0, outcome |-> NoOutcome, result |-> NoResult]

\* Lines 20-34: the call up to its `await fetch`.
GatewayStarted(url, params) ==
    [phase |-> "fetch", params |-> params, url |-> RequestUrl(url, params),
     qs |-> RequestQuery(params), attempts |-> 1,
     outcome |-> NoOutcome, result |-> NoResult]

\* Lines 34-39: the call from the settling of fetch to its own settling.
GatewaySettled(g, outcome) ==
    [g EXCEPT !.phase = "done", !.outcome = outcome,
              !.result = GatewayResult(outcome)]

(* ------------------------------------------------------------------ *)
(* getLifelogsSchema and the getLifelogs handler                       *)
(* ------------------------------------------------------------------ *)

Field(name, kind, default) == [name |-> name, kind |-> kind, default |-> default]

getLifelogsSchema ==
    << Field("timezone", "string", Undefined),
       Field("date", "string", Undefined),
       Field("start", "string", Undefined),
       Field("end", "string", Undefined),
       Field("cursor", "string", Undefined),
       Field("direction", "enum", Str("desc")),
       Field("includeMarkdown", "boolean", Bool(TRUE)),
       Field("includeHeadings", "boolean", Bool(TRUE)),
       Field("limit", "number", Undefined) >>

DirectionValues == {"asc", "desc"}

\* Whether a value that is present passes the field's type.
FieldAccepts(field, v) ==
    CASE field.kind = "string" -> v.type = "string"
      [] field.kind = "enum" -> v.type = "string" /\ v.s \in DirectionValues
      [] field.kind = "boolean" -> v.type = "boolean"
      [] OTHER -> v.type = "number"

\* A schema field declared .optional() only: undefined stays undefined.
FieldValueWithoutDefault(field, v) == v

\* .optional().default(d): an undefined input becomes the default.
FieldValue(field, v) == IF v = Undefined THEN field.default ELSE v

RECURSIVE ParsedEntries(_, _)
ParsedEntries(schema, args) ==
    IF schema = <<>> THEN <<>>
    ELSE LET f == Head(schema)
             v == FieldValue(f, GetProp(args, f.name))
         IN  (IF v = Undefined THEN <<>> ELSE <<Prop(f.name, v)>>)
             \o ParsedEntries(Tail(schema), args)

\* Validation of a call's arguments against the object schema: the parsed
\* object (unknown keys stripped, defaults filled in) or a rejection.
SchemaParse(schema, args) ==
    IF args.type # "object" THEN [ok |-> FALSE]
    ELSE IF \E i \in 1..Len(schema) :
              LET v == GetProp(args, schema[i].name)
              IN  v # Undefined /\ ~FieldAccepts(schema[i], v)
         THEN [ok |-> FALSE]
         ELSE [ok |-> TRUE, data |-> Obj(ParsedEntries(schema, args))]

ErrorPrefix == "Error fetching lifelogs: "

TextContent(text) == <<[type |-> "text", text |-> text]>>

\* The handler whose catch branch leaves out `isError: true`.
ToolResultWithoutFlag(result) ==
    IF result.ok
    THEN [content |-> TextContent(JSONstringifyPretty(result.value))]
    ELSE [content |-> TextContent(ErrorPrefix \o result.message)]

\* Lines 65-70: the Tool Result the handler returns for a Gateway result.
ToolResult(result) ==
    IF result.ok
    THEN [content |-> TextContent(JSONstringifyPretty(result.value))]
    ELSE [content |-> TextContent(ErrorPrefix \o result.message),
          isError |-> TRUE]

IsErrorFlagged(toolResult) ==
    "isError" \in DOMAIN toolResult /\ toolResult.isError

(* ------------------------------------------------------------------ *)
(* Lines typed at the interactive prompts                              *)
(* ------------------------------------------------------------------ *)

UpperLetters ==
    <<"A", "B", "C", "D", "E", "F", "G", "H", "I", "J", "K", "L", "M",
      "N", "O", "P", "Q", "R", "S", "T", "U", "V", "W", "X", "Y", "Z">>

LowerLetters ==
    <<"a", "b", "c", "d", "e", "f", "g", "h", "i", "j", "k", "l", "m",
      "n", "o", "p", "q", "r", "s", "t", "u", "v", "w", "x", "y", "z">>

LowerChar(c) ==
    IF \E i \in 1..Len(UpperLetters) : UpperLetters[i] = c
    THEN LowerLetters[CHOOSE i \in 1..Len(UpperLetters) : UpperLetters[i] = c]
    ELSE c

\* String.prototype.toLowerCase on a sequence of characters.
ToLowerCase(chars) == [i \in 1..Len(chars) |-> LowerChar(chars[i])]

QuitWord == <<"q", "u", "i", "t">>

GetLifelogsName == <<"g", "e", "t", "L", "i", "f", "e", "l", "o", "g", "s">>

\* Lines typed at the tool-name prompt.
NameInputs ==
    { QuitWord,
      <<"Q", "u", "I", "T">>,
      <<"q", "u", "i", "t", " ">>,
      GetLifelogsName,
      <<"g", "e", "t", "l", "o", "g", "s">> }

\* Lines typed at the parameters prompt.
ParamInputs ==
    { JSONstringify(v) : v \in ArgumentValues }
    \cup {"", "not-json"}

(* ------------------------------------------------------------------ *)
(* State                                                               *)
(* ------------------------------------------------------------------ *)

\* "main" is the process the user starts; "child" is the server subprocess
\* a client spawns through StdioClientTransport.
Procs == {"main", "child"}

VARIABLES
    env,          \* [Procs -> value]: process.env.LIMITLESS_API_KEY
    argv2,        \* [Procs -> value]: process.argv[2]
    pc,           \* [Procs -> position in the program]
    exitCode,     \* [Procs -> exit status], -1 while the process has not ended
    stderr,       \* [Procs -> set of lines written with console.error]
    serverState,  \* lifecycle of the McpServer of the run
    tools,        \* names of the tools registered on the McpServer
    requests,     \* tools/call requests sent to the server, not yet dispatched
    reply,        \* the answer to the call the caller awaits
    gateway,      \* the makeLimitlessRequest call in progress, or the last one
    handled,      \* number of Tool Results the getLifelogs handler has returned
    failures,     \* number of them returned for a failed Gateway call
    last,         \* the last handler run: the Gateway's result and the Tool Result
    current,      \* the request whose handler is running
    httpCount,    \* HTTP requests issued
    client,       \* the Client of a client run
    rl,           \* the readline interface of an interactive run
    toolName,     \* interactive: the line read at the tool-name prompt
    paramsInput   \* interactive: the line read at the parameters prompt

vars ==
    << env, argv2, pc, exitCode, stderr, serverState, tools, requests, reply,
       gateway, handled, failures, last, current, httpCount, client, rl,
       toolName, paramsInput >>

\* What the handler runs of the server have left behind.
served == <<handled, failures, last, current>>

NoMsg == [kind |-> "none"]

ApiKeys == {Undefined, Str(""), Str("sk-test")}

Modes ==
    {Undefined, Str("server"), Str("client"), Str("interactive"), Str("Server")}

NoRun == [result |-> NoResult, toolResult |-> [content |-> <<>>]]

NewClient == [connected |-> FALSE, listed |-> FALSE, calls |-> 0, closeCount |-> 0]

Init ==
    /\ env \in { [p \in Procs |-> IF p = "main" THEN k ELSE Undefined] : k \in ApiKeys }
    /\ argv2 \in { [p \in Procs |-> IF p = "main" THEN m ELSE Undefined] : m \in Modes }
    /\ pc = [p \in Procs |-> IF p = "main" THEN "load" ELSE "unspawned"]
    /\ exitCode = [p \in Procs |-> -1]
    /\ stderr = [p \in Procs |-> {}]
    /\ serverState = "none"
    /\ tools = {}
    /\ requests = <<>>
    /\ reply = NoMsg
    /\ gateway = IdleGateway
    /\ handled = 0
    /\ failures = 0
    /\ last = NoRun
    /\ current = NoMsg
    /\ httpCount = 0
    /\ client = NewClient
    /\ rl = "none"
    /\ toolName = <<>>
    /\ paramsInput = ""

\* The process that runs the server, when there is one.
ServerProc == IF argv2["main"] = Str("server") THEN "main" ELSE "child"

\* console.error(line) followed by process.exit(1)
Fatal(p, line) ==
    /\ stderr' = [stderr EXCEPT ![p] = @ \cup {line}]
    /\ exitCode' = [exitCode EXCEPT ![p] = 1]
    /\ pc' = [pc EXCEPT ![p] = "exited"]

(* ------------------------------------------------------------------ *)
(* Process start: lines 10-14 and 150-169                              *)
(* ------------------------------------------------------------------ *)

MissingKeyLine == "Missing LIMITLESS_API_KEY in environment variables"

UsageLine == "Usage: node build/index.js [server|client|interactive]"

\* The key check without its process.exit(1): the diagnostic is printed
\* and the program goes on.
KeyCheckWithoutExit(p) ==
    /\ pc[p] = "load"
    /\ stderr' = IF ~Truthy(env[p])
                 THEN [stderr EXCEPT ![p] = @ \cup {MissingKeyLine}]
                 ELSE stderr
    /\ pc' = [pc EXCEPT ![p] = "mode"]
    /\ UNCHANGED <<env, argv2, exitCode, serverState, tools, requests, reply,
                   gateway, served, httpCount, client, rl, toolName, paramsInput>>

\* Lines 10-14: the API key check at module load.
KeyCheck(p) ==
    /\ pc[p] = "load"
    /\ IF ~Truthy(env[p])
       THEN Fatal(p, MissingKeyLine)
       ELSE /\ pc' = [pc EXCEPT ![p] = "mode"]
            /\ UNCHANGED <<stderr, exitCode>>
    /\ UNCHANGED <<env, argv2, serverState, tools, requests, reply, gateway,
                   served, httpCount, client, rl, toolName, paramsInput>>

\* The mode selection with the server as its last branch instead of the
\* usage line.
ModeSelectDefaultingToServer(p) ==
    /\ pc[p] = "mode"
    /\ IF argv2[p] = Str("client")
       THEN /\ pc' = [pc EXCEPT ![p] = "c_connect"]
            /\ UNCHANGED serverState
       ELSE IF argv2[p] = Str("interactive")
       THEN /\ pc' = [pc EXCEPT ![p] = "i_connect"]
            /\ UNCHANGED serverState
       ELSE /\ pc' = [pc EXCEPT ![p] = "s_tool"]
            /\ serverState' = "Uninitialized"
    /\ UNCHANGED <<env, argv2, stderr, exitCode, tools, requests, reply, gateway,
                   served, httpCount, client, rl, toolName, paramsInput>>

\* Lines 150-169: the mode selection; runServer starts with `new McpServer`.
ModeSelect(p) ==
    /\ pc[p] = "mode"
    /\ IF argv2[p] = Str("server")
       THEN /\ pc' = [pc EXCEPT ![p] = "s_tool"]
            /\ serverState' = "Uninitialized"
            /\ UNCHANGED <<stderr, exitCode>>
       ELSE IF argv2[p] = Str("client")
       THEN /\ pc' = [pc EXCEPT ![p] = "c_connect"]
            /\ UNCHANGED <<stderr, exitCode, serverState>>
       ELSE IF argv2[p] = Str("interactive")
       THEN /\ pc' = [pc EXCEPT ![p] = "i_connect"]
            /\ UNCHANGED <<stderr, exitCode, serverState>>
       ELSE /\ Fatal(p, UsageLine)
            /\ UNCHANGED serverState
    /\ UNCHANGED <<env, argv2, tools, requests, reply, gateway, served,
                   httpCount, client, rl, toolName, paramsInput>>

(* ------------------------------------------------------------------ *)
(* runServer: lines 57-76                                              *)
(* ------------------------------------------------------------------ *)

\* Lines 64-71: server.tool('getLifelogs', ...)
ServerRegisterTool(p) ==
    /\ pc[p] = "s_tool"
    /\ serverState' = "Registered"
    /\ tools' = tools \cup {GetLifelogsName}
    /\ pc' = [pc EXCEPT ![p] = "s_connect"]
    /\ UNCHANGED <<env, argv2, exitCode, stderr, requests, reply, gateway,
                   served, httpCount, client, rl, toolName, paramsInput>>

\* Lines 73-75 and 152-155: `await server.connect(transport)`; a rejection
\* reaches the .catch of the mode selection.
ServerConnect(p) ==
    /\ pc[p] = "s_connect"
    /\ \E connected \in BOOLEAN :
         IF connected
         THEN /\ serverState' = "Serving"
              /\ stderr' = [stderr EXCEPT ![p] = @ \cup {"MCP Server running on stdio"}]
              /\ pc' = [pc EXCEPT ![p] = "s_run"]
              /\ UNCHANGED exitCode
         ELSE /\ Fatal(p, "Server error:")
              /\ UNCHANGED serverState
    /\ UNCHANGED <<env, argv2, tools, requests, reply, gateway, served,
                   httpCount, client, rl, toolName, paramsInput>>

ProtocolError(message) == [kind |-> "error", message |-> message]

ResultReply(toolResult) == [kind |-> "result", result |-> toolResult]

\* Dispatch of a tools/call request by the serving McpServer: unknown tools
\* and arguments the schema rejects are answered without running a handler;
\* otherwise the handler of lines 64-71 runs up to `await fetch` (line 34).
HandlerStart(p) ==
    /\ pc[p] = "s_run"
    /\ serverState = "Serving"
    /\ requests # <<>>
    /\ gateway.phase # "fetch"
    /\ LET req == Head(requests)
           parsed == SchemaParse(getLifelogsSchema, req.arguments)
       IN  /\ requests' = Tail(requests)
           /\ IF req.name \notin tools
              THEN /\ reply' = ProtocolError("Tool not found")
                   /\ UNCHANGED <<gateway, httpCount, current>>
              ELSE IF ~parsed.ok
              THEN /\ reply' = ProtocolError("Invalid arguments")
                   /\ UNCHANGED <<gateway, httpCount, current>>
              ELSE /\ gateway' = GatewayStarted(LifelogsUrl, parsed.data)
                   /\ httpCount' = httpCount + gateway'.attempts
                   /\ current' = req
                   /\ UNCHANGED reply
    /\ UNCHANGED <<env, argv2, pc, exitCode, stderr, serverState, tools,
                   handled, failures, last, client, rl, toolName, paramsInput>>

\* The handler without its try/catch: a failed Gateway call rejects the
\* handler and the rejection ends the process.
HandlerSettleWithoutCatch(p) ==
    /\ pc[p] = "s_run"
    /\ gateway.phase = "fetch"
    /\ \E outcome \in FetchOutcomes :
         LET settled == GatewaySettled(gateway, outcome)
         IN  /\ last' = [result |-> settled.result,
                         toolResult |-> ToolResult(settled.result)]
             /\ handled' = handled + 1
             /\ failures' = IF settled.result.ok THEN failures ELSE failures + 1
             /\ gateway' = IdleGateway
             /\ current' = NoMsg
             /\ IF settled.result.ok
                THEN /\ reply' = ResultReply(last'.toolResult)
                     /\ UNCHANGED <<pc, exitCode, stderr>>
                ELSE /\ Fatal(p, "Server error:")
                     /\ UNCHANGED reply
    /\ UNCHANGED <<env, argv2, serverState, tools, requests, httpCount, client,
                   rl, toolName, paramsInput>>

\* Lines 34-39 and 66-70: fetch settles, makeLimitlessRequest returns or
\* throws, and the handler returns its Tool Result.
HandlerSettle(p) ==
    /\ pc[p] = "s_run"
    /\ gateway.phase = "fetch"
    /\ \E outcome \in FetchOutcomes :
         LET settled == GatewaySettled(gateway, outcome)
         IN  /\ last' = [result |-> settled.result,
                         toolResult |-> ToolResult(settled.result)]
             /\ handled' = handled + 1
             /\ failures' = IF settled.result.ok THEN failures ELSE failures + 1
             /\ reply' = ResultReply(last'.toolResult)
             /\ gateway' = IdleGateway
             /\ current' = NoMsg
    /\ UNCHANGED <<env, argv2, pc, exitCode, stderr, serverState, tools,
                   requests, httpCount, client, rl, toolName, paramsInput>>

\* The peer of a server run writes a tools/call request to the server's
\* standard input, where it waits until the transport reads it.
ExternalCall ==
    /\ pc["main"] \in {"s_tool", "s_connect", "s_run"}
    /\ handled + Len(requests) + (IF gateway.phase = "fetch" THEN 1 ELSE 0) < MaxCalls
    /\ \E name \in {GetLifelogsName, <<"g", "e", "t", "l", "o", "g", "s">>},
          arguments \in ArgumentValues :
         requests' = Append(requests, [name |-> name, arguments |-> arguments])
    /\ reply' = NoMsg
    /\ UNCHANGED <<env, argv2, pc, exitCode, stderr, serverState, tools,
                   gateway, served, httpCount, client, rl, toolName, paramsInput>>

\* The server's standard input ends (its peer is gone): the transport closes
\* and the process ends.
ServerStdinClosed(p) ==
    /\ pc[p] = "s_run"
    /\ p = "main" \/ pc["main"] = "exited"
    /\ serverState' = "Terminated"
    /\ pc' = [pc EXCEPT ![p] = "exited"]
    /\ exitCode' = [exitCode EXCEPT ![p] = 0]
    /\ requests' = <<>>
    /\ gateway' = IdleGateway
    /\ current' = NoMsg
    /\ UNCHANGED <<env, argv2, stderr, tools, reply, handled, failures, last,
                   httpCount, client, rl, toolName, paramsInput>>

(* ------------------------------------------------------------------ *)
(* runClient (lines 80-106) and runInteractiveClient (lines 108-146)   *)
(* ------------------------------------------------------------------ *)

\* "c" in client mode, "i" in interactive mode.
ClientKind == IF argv2["main"] = Str("client") THEN "c" ELSE "i"

At(step) == pc["main"] \in {"c_" \o step, "i_" \o step}

Goto(step) == [pc EXCEPT !["main"] = ClientKind \o "_" \o step]

ClientErrorLine ==
    IF ClientKind = "c" THEN "Client error:" ELSE "Interactive client error:"

\* client.connect(transport) without its `await`: the client goes on to
\* listTools while the server is still starting.
ClientConnectStartWithoutAwait ==
    /\ At("connect")
    /\ pc' = [Goto("list") EXCEPT !["child"] = "load"]
    /\ env' = [env EXCEPT !["child"] = Str(String(env["main"]))]
    /\ argv2' = [argv2 EXCEPT !["child"] = Str("server")]
    /\ UNCHANGED <<stderr, exitCode, serverState, tools, requests, reply,
                   gateway, served, httpCount, client, rl, toolName, paramsInput>>

\* Lines 83-88 / 111-116: client.connect(transport) spawns this program in
\* server mode, handing it the API key; a failed spawn rejects connect.
ClientConnectStart ==
    /\ At("connect")
    /\ \E spawned \in BOOLEAN :
         IF spawned
         THEN /\ pc' = [Goto("handshake") EXCEPT !["child"] = "load"]
              /\ env' = [env EXCEPT !["child"] = Str(String(env["main"]))]
              /\ argv2' = [argv2 EXCEPT !["child"] = Str("server")]
              /\ UNCHANGED <<stderr, exitCode>>
         ELSE /\ Fatal("main", ClientErrorLine)
              /\ UNCHANGED <<env, argv2>>
    /\ UNCHANGED <<serverState, tools, requests, reply, gateway, served,
                   httpCount, client, rl, toolName, paramsInput>>

\* Line 88 / 116: `await client.connect` settles: the serving child answers
\* the handshake, or the handshake fails and the rejection reaches the
\* .catch of the mode selection.
ClientConnectSettle ==
    /\ At("handshake")
    /\ \E answered \in BOOLEAN :
         IF answered
         THEN /\ serverState = "Serving"
              /\ client' = [client EXCEPT !.connected = TRUE]
              /\ pc' = Goto("list")
              /\ UNCHANGED <<stderr, exitCode>>
         ELSE /\ Fatal("main", ClientErrorLine)
              /\ UNCHANGED client
    /\ UNCHANGED <<env, argv2, serverState, tools, requests, reply, gateway,
                   served, httpCount, rl, toolName, paramsInput>>

\* Lines 89-93 / 117-122: `await client.listTools()`; a rejection is outside
\* every try block and reaches the .catch of the mode selection.
ClientListTools ==
    /\ At("list")
    /\ \E listed \in BOOLEAN :
         IF listed
         THEN /\ client' = [client EXCEPT !.listed = TRUE]
              /\ IF ClientKind = "c"
                 THEN pc' = Goto("call") /\ UNCHANGED rl
                 ELSE pc' = Goto("name") /\ rl' = "open"
              /\ UNCHANGED <<stderr, exitCode>>
         ELSE /\ Fatal("main", ClientErrorLine)
              /\ UNCHANGED <<client, rl>>
    /\ UNCHANGED <<env, argv2, serverState, tools, requests, reply, gateway,
                   served, httpCount, toolName, paramsInput>>

CallRequest(name, arguments) == [name |-> name, arguments |-> arguments]

\* Lines 97-100: callTool({name: 'getLifelogs', arguments: {}})
ClientCallTool ==
    /\ pc["main"] = "c_call"
    /\ requests' = Append(requests, CallRequest(GetLifelogsName, Obj(<<>>)))
    /\ client' = [client EXCEPT !.calls = @ + 1]
    /\ reply' = NoMsg
    /\ pc' = Goto("await")
    /\ UNCHANGED <<env, argv2, exitCode, stderr, serverState, tools, gateway,
                   served, httpCount, rl, toolName, paramsInput>>

\* Lines 101-104 / 137-140: `await client.callTool` settles with the
\* server's answer, or rejects (an error answer, or a transport failure
\* that loses the request); the rejection is caught and printed.
CallToolSettle ==
    /\ At("await")
    /\ \E answered \in BOOLEAN :
         IF answered
         THEN /\ reply # NoMsg
              /\ stderr' = IF reply.kind = "result" THEN stderr
                           ELSE [stderr EXCEPT !["main"] = @ \cup {"Error:"}]
              /\ UNCHANGED requests
         ELSE /\ requests # <<>>
              /\ requests' = <<>>
              /\ stderr' = [stderr EXCEPT !["main"] = @ \cup {"Error:"}]
    /\ reply' = NoMsg
    /\ pc' = IF ClientKind = "c" THEN Goto("close") ELSE Goto("name")
    /\ UNCHANGED <<env, argv2, exitCode, serverState, tools, gateway,
                   served, httpCount, client, rl, toolName, paramsInput>>

\* Lines 125-126 and 142-144: the tool-name prompt; 'quit' leaves the loop
\* and the finally block closes the readline interface.
PromptName ==
    /\ pc["main"] = "i_name"
    /\ \E line \in NameInputs :
         /\ toolName' = line
         /\ paramsInput' = ""
         /\ IF ToLowerCase(line) = QuitWord
            THEN rl' = "closed" /\ pc' = Goto("close")
            ELSE pc' = Goto("params") /\ UNCHANGED rl
    /\ UNCHANGED <<env, argv2, exitCode, stderr, serverState, tools, requests,
                   reply, gateway, served, httpCount, client>>

\* Whether lines 129-134 take the catch branch for the line typed.
ParamsRejected(line) == ~JSONparse(IF line = "" THEN "{}" ELSE line).ok

\* The parameters prompt whose catch branch lacks `continue`: after the
\* report the call is sent with the initial `params = {}`.
PromptParamsWithoutContinue ==
    /\ pc["main"] = "i_params"
    /\ client.calls < MaxCalls
    /\ \E line \in ParamInputs :
         /\ paramsInput' = line
         /\ stderr' = IF ParamsRejected(line)
                      THEN [stderr EXCEPT !["main"] = @ \cup {"Invalid JSON. Try again."}]
                      ELSE stderr
         /\ requests' = Append(requests,
                CallRequest(toolName,
                    IF ParamsRejected(line) THEN Obj(<<>>)
                    ELSE JSONparse(IF line = "" THEN "{}" ELSE line).value))
    /\ client' = [client EXCEPT !.calls = @ + 1]
    /\ reply' = NoMsg
    /\ pc' = Goto("await")
    /\ UNCHANGED <<env, argv2, exitCode, serverState, tools, gateway, served,
                   httpCount, rl, toolName>>

\* Lines 127-136: the parameters prompt, JSON.parse(paramsInput || '{}'),
\* and either the report of invalid JSON or the callTool request.
PromptParams ==
    /\ pc["main"] = "i_params"
    /\ \E line \in ParamInputs :
         /\ paramsInput' = line
         /\ IF ParamsRejected(line)
            THEN /\ stderr' = [stderr EXCEPT !["main"] = @ \cup {"Invalid JSON. Try again."}]
                 /\ pc' = Goto("name")
                 /\ UNCHANGED <<requests, client, reply>>
            ELSE /\ client.calls < MaxCalls
                 /\ requests' = Append(requests,
                        CallRequest(toolName,
                            JSONparse(IF line = "" THEN "{}" ELSE line).value))
                 /\ client' = [client EXCEPT !.calls = @ + 1]
                 /\ reply' = NoMsg
                 /\ pc' = Goto("await")
                 /\ UNCHANGED stderr
    /\ UNCHANGED <<env, argv2, exitCode, serverState, tools, gateway, served,
                   httpCount, rl, toolName>>

\* Line 105 / 145: `await client.close()` closes the transport, which ends
\* the spawned server; runClient returns and the process ends.
ClientClose ==
    /\ At("close")
    /\ client' = [client EXCEPT !.connected = FALSE, !.closeCount = @ + 1]
    /\ pc' = [p \in Procs |-> "exited"]
    /\ exitCode' = [exitCode EXCEPT !["main"] = 0,
                                    !["child"] = IF @ = -1 THEN 0 ELSE @]
    /\ serverState' = IF serverState = "Serving" THEN "Terminated" ELSE serverState
    /\ requests' = <<>>
    /\ gateway' = IdleGateway
    /\ current' = NoMsg
    /\ UNCHANGED <<env, argv2, stderr, tools, reply, handled, failures, last,
                   httpCount, rl, toolName, paramsInput>>

(* ------------------------------------------------------------------ *)
(* Specifications                                                      *)
(* ------------------------------------------------------------------ *)

Next ==
    \/ \E p \in Procs : KeyCheck(p)
    \/ \E p \in Procs : ModeSelect(p)
    \/ \E p \in Procs : ServerRegisterTool(p)
    \/ \E p \in Procs : ServerConnect(p)
    \/ \E p \in Procs : HandlerStart(p)
    \/ \E p \in Procs : HandlerSettle(p)
    \/ \E p \in Procs : ServerStdinClosed(p)
    \/ ExternalCall
    \/ ClientConnectStart
    \/ ClientConnectSettle
    \/ ClientListTools
    \/ ClientCallTool
    \/ CallToolSettle
    \/ PromptName
    \/ PromptParams
    \/ ClientClose

Spec == Init /\ [][Next]_vars

\* makeLimitlessRequest on its own: every params mapping over three keys,
\* each key absent, undefined, null or one of the present values, and the
\* call without params.
GatewayKeys == <<"cursor", "includeMarkdown", "limit">>

Absent == [type |-> "absent"]

GatewayValues ==
    {Absent, Undefined, Null, Str(""), Str("a b"), Bool(FALSE), Num(0), Num(MaxLimit)}

RECURSIVE EntriesFrom(_, _)
EntriesFrom(keys, f) ==
    IF keys = <<>> THEN <<>>
    ELSE (IF f[Head(keys)] = Absent THEN <<>> ELSE <<Prop(Head(keys), f[Head(keys)])>>)
         \o EntriesFrom(Tail(keys), f)

GatewayKeySet == { GatewayKeys[i] : i \in 1..Len(GatewayKeys) }

GatewayParams ==
    { Obj(EntriesFrom(GatewayKeys, f)) : f \in [GatewayKeySet -> GatewayValues] }
    \cup {Undefined}

GatewayInit ==
    /\ env = [p \in Procs |-> IF p = "main" THEN Str("sk-test") ELSE Undefined]
    /\ argv2 = [p \in Procs |-> IF p = "main" THEN Str("server") ELSE Undefined]
    /\ pc = [p \in Procs |-> IF p = "main" THEN "s_run" ELSE "unspawned"]
    /\ exitCode = [p \in Procs |-> -1]
    /\ stderr = [p \in Procs |-> IF p = "main" THEN {"MCP Server running on stdio"} ELSE {}]
    /\ serverState = "Serving"
    /\ tools = {GetLifelogsName}
    /\ requests = <<>>
    /\ reply = NoMsg
    /\ gateway = IdleGateway
    /\ handled = 0
    /\ failures = 0
    /\ last = NoRun
    /\ current = NoMsg
    /\ httpCount = 0
    /\ client = NewClient
    /\ rl = "none"
    /\ toolName = <<>>
    /\ paramsInput = ""

\* Lines 20-34: a call of makeLimitlessRequest up to `await fetch`.
GatewayInvoke ==
    /\ gateway.phase = "idle"
    /\ \E params \in GatewayParams :
         gateway' = GatewayStarted(LifelogsUrl, params)
    /\ httpCount' = httpCount + gateway'.attempts
    /\ UNCHANGED <<env, argv2, pc, exitCode, stderr, serverState, tools,
                   requests, reply, served, client, rl, toolName, paramsInput>>

\* Lines 34-39: fetch settles and the call returns or throws.
GatewayFetchSettles ==
    /\ gateway.phase = "fetch"
    /\ \E outcome \in FetchOutcomes :
         gateway' = GatewaySettled(gateway, outcome)
    /\ UNCHANGED <<env, argv2, pc, exitCode, stderr, serverState, tools,
                   requests, reply, served, httpCount, client, rl, toolName,
                   paramsInput>>

GatewayNext == GatewayInvoke \/ GatewayFetchSettles

GatewaySpec == GatewayInit /\ [][GatewayNext]_vars

(* ------------------------------------------------------------------ *)
(* Properties                                                          *)
(* ------------------------------------------------------------------ *)

\* The positions of the list qs whose parameter is named k.
ParamsNamed(qs, k) == { i \in 1..Len(qs) : qs[i].name = k }

IsPresent(v) == v # Undefined /\ v # Null

\* The keys of an object, in a set.
KeysOf(o) == { o.entries[i].k : i \in 1..Len(o.entries) }

\* C1: for every params mapping passed to makeLimitlessRequest, the query
\* carries exactly one parameter key=String(value) for each field whose
\* value is neither undefined nor null, none at all for a field that is
\* undefined or null, and the URL fetched is the base URL, "?", and these
\* parameters joined.
C1_PresentFieldsSerialized ==
    (gateway.phase # "idle" /\ gateway.params # Undefined) =>
        /\ \A k \in KeysOf(gateway.params) :
             LET v == GetProp(gateway.params, k)
                 at == ParamsNamed(gateway.qs, k)
             IN  IF IsPresent(v)
                 THEN /\ Cardinality(at) = 1
                      /\ \A i \in at : gateway.qs[i].value = String(v)
                 ELSE at = {}
        /\ \A i \in 1..Len(gateway.qs) : gateway.qs[i].name \in KeysOf(gateway.params)
        /\ gateway.url = LifelogsUrl \o "?" \o QsToString(gateway.qs)

\* C1 witness: a call whose params hold a null, an undefined and a falsy but
\* present value; only the last is serialized.
C1_Witness ==
    /\ gateway.phase = "fetch"
    /\ gateway.params =
         Obj(<<Prop("cursor", Null), Prop("includeMarkdown", Undefined),
               Prop("limit", Num(0))>>)
    /\ gateway.url = "https://api.limitless.ai/v1/lifelogs?limit=0"

FailureMessage(status, body) ==
    "Request failed: " \o NumberToString(status) \o " " \o body

\* C2 as stated: for every response, a non-success status makes the call
\* fail with the status code and the body text, a success status makes the
\* call return the parsed JSON body, and one fetch is issued per call.
C2_EverySuccessReturnsParsedBody ==
    (gateway.phase = "done" /\ gateway.outcome.kind = "response") =>
        /\ ~ResponseOk(gateway.outcome.status) =>
             gateway.result =
               Thrown(FailureMessage(gateway.outcome.status, gateway.outcome.body))
        /\ ResponseOk(gateway.outcome.status) =>
             /\ gateway.result.ok
             /\ JSONparse(gateway.outcome.body).ok
             /\ gateway.result.value = JSONparse(gateway.outcome.body).value
        /\ gateway.attempts = 1

\* C2, amended: for every response, a non-success status makes the call
\* fail with the status code and the body text verbatim; a success status
\* whose body is valid JSON makes the call return the parsed body; a
\* success status whose body is not valid JSON makes the call fail with the
\* parser's error; one fetch is issued per call.
C2_ResponseDecidesResult ==
    /\ gateway.phase # "idle" => gateway.attempts = 1 /\ httpCount = 1
    /\ (gateway.phase = "done" /\ gateway.outcome.kind = "response") =>
         LET parsed == JSONparse(gateway.outcome.body)
         IN  /\ ~ResponseOk(gateway.outcome.status) =>
                  gateway.result =
                    Thrown(FailureMessage(gateway.outcome.status, gateway.outcome.body))
             /\ (ResponseOk(gateway.outcome.status) /\ parsed.ok) =>
                  gateway.result = Returned(parsed.value)
             /\ (ResponseOk(gateway.outcome.status) /\ ~parsed.ok) =>
                  gateway.result = Thrown(SyntaxErrorMessage)

\* C2 witness: a 401 answered with the text "unauthorized".
C2_Witness ==
    /\ gateway.phase = "done"
    /\ gateway.outcome = FetchResponse(401, "unauthorized")
    /\ gateway.result = Thrown("Request failed: 401 unauthorized")
    /\ gateway.attempts = 1

\* C6: when the API key is missing at process start, the process prints the
\* diagnostic and exits with status 1 at the key check: it selects no mode,
\* registers and serves no tool, spawns no server subprocess, creates no
\* client and issues no HTTP request.
C6_MissingKeyStopsEverything ==
    ~Truthy(env["main"]) =>
        /\ pc["main"] \in {"load", "exited"}
        /\ pc["main"] = "exited" =>
             exitCode["main"] = 1 /\ MissingKeyLine \in stderr["main"]
        /\ serverState = "none"
        /\ tools = {}
        /\ pc["child"] = "unspawned"
        /\ requests = <<>>
        /\ httpCount = 0
        /\ gateway = IdleGateway
        /\ client = NewClient
        /\ rl = "none"

\* C6 witness: a run in server mode without the variable has exited.
C6_Witness ==
    /\ env["main"] = Undefined
    /\ argv2["main"] = Str("server")
    /\ pc["main"] = "exited"
    /\ exitCode["main"] = 1
    /\ stderr["main"] = {MissingKeyLine}

TextOf(toolResult) == toolResult.content[1].text

\* The messages of the errors makeLimitlessRequest throws.
GatewayMessages ==
    {"fetch failed", SyntaxErrorMessage}
    \cup { FailureMessage(st, b) : st \in ResponseStatuses, b \in ResponseBodies }

\* Whether a text is an error message of the handler.
IsErrorText(text) == \E m \in GatewayMessages : text = ErrorPrefix \o m

\* C3: a Tool Result of the getLifelogs handler has its error flag set if
\* and only if its text is 'Error fetching lifelogs: ' followed by the
\* error's message, which is the case if and only if the Gateway call
\* failed; after a successful Gateway call the text is the document,
\* pretty-printed, and the result has no error flag.
C3_ErrorFlagIffErrorText ==
    handled > 0 =>
        LET r == last.toolResult
        IN  /\ IsErrorFlagged(r) <=> ~last.result.ok
            /\ IsErrorFlagged(r) <=> IsErrorText(TextOf(r))
            /\ Len(r.content) = 1 /\ r.content[1].type = "text"
            /\ ~last.result.ok =>
                 TextOf(r) = "Error fetching lifelogs: " \o last.result.message
            /\ last.result.ok =>
                 /\ TextOf(r) = JSONstringifyPretty(last.result.value)
                 /\ "isError" \notin DOMAIN r

\* C3 witness: after a failed call, a successful one whose document is a
\* string that reads like the handler's error message.
C3_Witness ==
    /\ failures = 1
    /\ handled = 2
    /\ last.result = Returned(Str("Error fetching lifelogs: fetch failed"))
    /\ TextOf(last.toolResult) = "\"Error fetching lifelogs: fetch failed\""
    /\ ~IsErrorFlagged(last.toolResult)

\* C4: a handler run whose Gateway call failed (non-success status, network
\* failure, unparsable body) answers the call with an error-flagged Tool
\* Result and leaves the server process running and Serving; after a failed
\* call the server stays Serving, where it dispatches the next request,
\* until its transport is closed, and it never exits with a failure status.
C4_HandlerFailureKeepsServing ==
    /\ [][(handled' = handled + 1 /\ ~last'.result.ok) =>
            /\ serverState' = "Serving"
            /\ pc'[ServerProc] = "s_run"
            /\ exitCode'[ServerProc] = -1
            /\ IsErrorFlagged(last'.toolResult)
            /\ reply' = ResultReply(last'.toolResult)
            /\ gateway'.phase = "idle"]_vars
    /\ [](handled > 0 => exitCode[ServerProc] # 1)
    /\ [](failures > 0 =>
            \/ serverState = "Serving" /\ pc[ServerProc] = "s_run"
            \/ serverState = "Terminated" /\ exitCode[ServerProc] = 0)

\* C4 witness: the server, having answered a failed call, has answered the
\* next call with a document and is still Serving.
C4_Witness ==
    /\ failures = 1
    /\ handled = 2
    /\ last.result.ok
    /\ serverState = "Serving"
    /\ pc[ServerProc] = "s_run"

\* C5: on every run of a client in which connect succeeded, client.close is
\* invoked exactly once before the client process ends.
C5_CloseRunsOnceBeforeExit ==
    (pc["main"] = "exited" /\ (client.connected \/ client.closeCount > 0)) =>
        client.closeCount = 1

QsHas(qs, name, value) == \E i \in 1..Len(qs) : qs[i] = [name |-> name, value |-> value]

\* C7: in the request the handler sends, a default-bearing field the call's
\* arguments omit takes its default (direction=desc, includeMarkdown=true,
\* includeHeadings=true), a field the arguments hold is sent as held, and a
\* direction held by the arguments is asc or desc; for the empty mapping the
\* query is exactly the three defaults.
C7_DefaultsFillOmittedFields ==
    gateway.phase = "fetch" =>
        LET a == current.arguments
            Sent(name, default) ==
                IF GetProp(a, name) = Undefined
                THEN QsHas(gateway.qs, name, default)
                ELSE QsHas(gateway.qs, name, String(GetProp(a, name)))
        IN  /\ Sent("direction", "desc")
            /\ Sent("includeMarkdown", "true")
            /\ Sent("includeHeadings", "true")
            /\ \A name \in {"direction", "includeMarkdown", "includeHeadings"} :
                 Cardinality(ParamsNamed(gateway.qs, name)) = 1
            /\ GetProp(a, "direction") # Undefined =>
                 GetProp(a, "direction") \in {Str("asc"), Str("desc")}
            /\ a = Obj(<<>>) =>
                 gateway.url = "https://api.limitless.ai/v1/lifelogs"
                     \o "?direction=desc&includeMarkdown=true&includeHeadings=true"

\* C7 witness: the request sent for the empty mapping of client mode.
C7_Witness ==
    /\ argv2["main"] = Str("client")
    /\ pc["main"] = "c_await"
    /\ gateway.phase = "fetch"
    /\ current = CallRequest(GetLifelogsName, Obj(<<>>))

LoopPositions == {"i_name", "i_params", "i_await"}

ServerPositions == {"s_tool", "s_connect", "s_run"}

ClientPositions == {"c_connect", "c_handshake", "c_list", "c_call", "c_await", "c_close"}

InteractivePositions ==
    {"i_connect", "i_handshake", "i_list", "i_name", "i_params", "i_await", "i_close"}

\* C9: the first argument alone selects the mode. 'server' runs the server
\* in the process itself, with no client and no subprocess; 'client' runs
\* the one-shot client, which registers no tool itself, sends at most one
\* call, getLifelogs with the empty mapping, and exactly one when it ends
\* normally; 'interactive' runs the interactive client; any other or
\* missing argument prints the usage line and exits with status 1, with no
\* server and no client started.
C9_ModeSelectsOneRole ==
    LET mode == argv2["main"]
        at == pc["main"]
        started == at \notin {"load", "mode", "exited"}
        noClient == client = NewClient /\ rl = "none" /\ pc["child"] = "unspawned"
    IN  /\ mode = Str("server") =>
             /\ started => at \in ServerPositions
             /\ noClient
        /\ mode = Str("client") =>
             /\ started => at \in ClientPositions
             /\ rl = "none"
             /\ client.calls <= 1
             /\ \A i \in 1..Len(requests) :
                  requests[i] = CallRequest(GetLifelogsName, Obj(<<>>))
             /\ serverState # "none" => pc["child"] # "unspawned"
             /\ (at = "exited" /\ exitCode["main"] = 0) => client.calls = 1
        /\ mode = Str("interactive") =>
             /\ started => at \in InteractivePositions
             /\ serverState # "none" => pc["child"] # "unspawned"
        /\ mode \notin {Str("server"), Str("client"), Str("interactive")} =>
             /\ ~started
             /\ (at = "exited" /\ Truthy(env["main"])) =>
                  exitCode["main"] = 1 /\ stderr["main"] = {UsageLine}
             /\ serverState = "none" /\ tools = {}
             /\ noClient
             /\ httpCount = 0

\* C9 witness: a run with the argument 'Server' has printed the usage line.
C9_Witness ==
    /\ argv2["main"] = Str("Server")
    /\ pc["main"] = "exited"
    /\ exitCode["main"] = 1
    /\ UsageLine \in stderr["main"]

LifecycleSteps ==
    { <<"none", "Uninitialized">>, <<"Uninitialized", "Registered">>,
      <<"Registered", "Serving">>, <<"Serving", "Terminated">> }

\* C10: the server's lifecycle advances one step at a time through
\* Uninitialized, Registered, Serving, Terminated; the tool is registered
\* before the transport is connected; a handler runs, and an HTTP request
\* is issued, only while the server is Serving; the client issues listTools
\* and callTool only after connect has completed and before close.
C10_LifecycleOrder ==
    /\ [][serverState' # serverState =>
            <<serverState, serverState'>> \in LifecycleSteps]_vars
    /\ [](serverState \in {"Serving", "Terminated"} => GetLifelogsName \in tools)
    /\ [](tools # {} => serverState \in {"Registered", "Serving", "Terminated"})
    /\ [][(httpCount' # httpCount \/ handled' # handled \/ current' # current) =>
            serverState = "Serving"]_vars
    /\ [][(client'.listed # client.listed \/ client'.calls # client.calls) =>
            client.connected /\ client.closeCount = 0]_vars
    /\ []((At("list") \/ At("call") \/ At("await") \/ At("name") \/ At("params")) =>
            client.connected /\ client.closeCount = 0)
    /\ [](client.closeCount > 0 => pc["main"] = "exited")

\* C10 witness: a client run that listed the tools, had a call answered by
\* the handler and closed, which terminated the server.
C10_Witness ==
    /\ serverState = "Terminated"
    /\ handled >= 1
    /\ client.listed
    /\ client.calls >= 1
    /\ client.closeCount = 1

====
